---- MODULE Spec2Model ----
(***************************************************************************)
(* Model of the transactional write path of SkynetLabs/promoter:           *)
(*   api.WithDBSession  (retry orchestrator around a Mongo transaction)    *)
(*   api.paymentPOST / PaymentPOST.Validate                                *)
(*   database.CreditUser / NewUser / NewTxn / UserBalance                  *)
(* The document store is modelled by its committed collections and one     *)
(* write set per open transaction.  Credits are float64 in the code; the   *)
(* model uses small integers, so rounding of float sums is not modelled.   *)
(***************************************************************************)
EXTENDS Integers, Sequences, FiniteSets, TLC

\* ------------------------------------------------------------------ bounds
NumReqs == 2
MaxCredits == 2
NumHealth == 2

\* ------------------------------------------------------- program constants
\* DBTxnRetryCount: the number of times a call is retried on WriteConflict.
DBTxnRetryCount == 5

StatusOK == 200
StatusBadRequest == 400
StatusInternalServerError == 500

Reqs == 1..NumReqs
HealthReqs == 1..NumHealth
Subs == {"a", "b"}
TxnIDs == {"t1", "t2"}

\* The body of a payment request: a JSON object with the three fields of
\* PaymentPOST, or bytes that are no JSON object at all.  The bodies posted
\* are the valid ones, one body for each way of failing validation (a
\* field missing from the JSON decodes to its zero value), and one body
\* that does not parse.
Garbage == [txnID |-> "{", sub |-> "{", credits |-> 0]
ValidBodies == [txnID : TxnIDs, sub : Subs, credits : 1..MaxCredits]
Bodies ==
    ValidBodies \cup
    { [txnID |-> "t1", sub |-> "a", credits |-> 0],
      [txnID |-> "t1", sub |-> "", credits |-> 1],
      [txnID |-> "", sub |-> "a", credits |-> 1],
      Garbage }

\* Which failures the store shows in a run ("none": only the conflicts and
\* duplicate keys that the requests themselves cause), and whether the
\* clients post one request at a time.
FaultModes == {"none", "conflict", "any"}

VARIABLES
    storeFaults,     \* the environment: failures the store may inject
    serial,          \* the environment: requests are posted one at a time
    users,           \* committed collection "users": sub -> number of docs
    txns,            \* committed collection "txns": set of Txn documents
    subscriptions,   \* committed collection "subscriptions" (never written)
    pc,              \* per request: position in WithDBSession
    body,            \* per request: the bytes read by io.ReadAll
    numRetriesLeft,  \* per request: local variable of WithDBSession
    sessOpen,        \* per request: number of Mongo sessions that are open
    ws,              \* per request: uncommitted writes of the transaction
    mw,              \* per request: the MongoWriter of the current attempt
    sink,            \* per request: responses written to the real writer w
    ctxDone,         \* per request: req.Context().Done() was seen closed
    handlerCalls,    \* per request: number of invocations of h
    creditCalls,     \* per request: number of invocations of CreditUser
    bodyReads,       \* per request: number of reads of the inbound stream
    reqBody,         \* per request: req.Body, a reader over the body
    payment,         \* per request: what the handler decoded from req.Body
    dbReachable,     \* the environment: the store answers a ping
    healthW          \* per health request: responses written to its writer

vars == <<storeFaults, serial, users, txns, subscriptions, pc, body, numRetriesLeft,
          sessOpen, ws, mw, sink, ctxDone, handlerCalls, creditCalls,
          bodyReads, reqBody, payment, dbReachable, healthW>>

envVars == <<storeFaults, serial, dbReachable, healthW>>
readerVars == <<bodyReads, reqBody, payment>>
paymentVars == <<storeFaults, serial, pc, body, numRetriesLeft, sessOpen, ws, mw,
                 sink, ctxDone, handlerCalls, creditCalls, readerVars>>
storeVars == <<users, txns, subscriptions>>

NoBody == [txnID |-> "", sub |-> "", credits |-> -1]
NoWrites == [user |-> FALSE, txn |-> FALSE]
NoError == [status |-> 0, buf |-> ""]

\* A reader over bytes: "off" is 0 at the start of the bytes, 1 after a part
\* of them was read, 2 at their end.  Inbound is the request's own stream
\* before WithDBSession has read it; its bytes are known once they are read.
NewReader(bytes) == [bytes |-> bytes, off |-> 0]
Inbound == NewReader(NoBody)

InFlight(r) == pc[r] \notin {"new", "done"}

Init ==
    /\ storeFaults \in FaultModes
    /\ serial \in BOOLEAN
    /\ users = [s \in Subs \cup {""} |-> 0]
    /\ txns = {}
    /\ subscriptions = {}
    /\ pc = [r \in Reqs |-> "new"]
    /\ body = [r \in Reqs |-> NoBody]
    /\ numRetriesLeft = [r \in Reqs |-> 0]
    /\ sessOpen = [r \in Reqs |-> 0]
    /\ ws = [r \in Reqs |-> NoWrites]
    /\ mw = [r \in Reqs |-> NoError]
    /\ sink = [r \in Reqs |-> <<>>]
    /\ ctxDone = [r \in Reqs |-> FALSE]
    /\ handlerCalls = [r \in Reqs |-> 0]
    /\ creditCalls = [r \in Reqs |-> 0]
    /\ bodyReads = [r \in Reqs |-> 0]
    /\ reqBody = [r \in Reqs |-> Inbound]
    /\ payment = [r \in Reqs |-> NoBody]
    /\ dbReachable = TRUE
    /\ healthW = [h \in HealthReqs |-> <<>>]


\* ------------------------------------------------------------- the store
\* schema(): the indexes created at start-up.  Only "subscriptions" and
\* "txns" get indexes, none of them unique; "users" gets none.  The only
\* unique index of a collection is therefore MongoDB's own one on _id.
UsersUniqueSub == FALSE

\* NewTxn: the document inserted into "txns".  Txn.ID carries the tag
\* bson:"_id", so the caller's txn ID is the key of the document; "id" is the
\* same value seen as the payment's txn ID.  A Txn document has no "price"
\* field.  "by" names the inserting request and stands for the physical
\* identity of the document.
NewTxnAutoKey(r, id, sub, amount) ==
    [key |-> "oid" \o ToString(r), id |-> id, sub |-> sub, amount |-> amount,
     by |-> r]
NewTxnKeyIdSub(r, id, sub, amount) ==
    [key |-> id \o "/" \o sub, id |-> id, sub |-> sub, amount |-> amount,
     by |-> r]
NewTxnKeyBySub(r, id, sub, amount) ==
    [key |-> sub, id |-> id, sub |-> sub, amount |-> amount, by |-> r]
NewTxnKeyIdAmount(r, id, sub, amount) ==
    [key |-> id \o "/" \o ToString(amount), id |-> id, sub |-> sub,
     amount |-> amount, by |-> r]
NewTxn(r, id, sub, amount) ==
    [key |-> id, id |-> id, sub |-> sub, amount |-> amount, by |-> r]

\* The Txn document of request r's CreditUser call.
TxnOf(r) == NewTxn(r, payment[r].txnID, payment[r].sub, payment[r].credits)

\* Failures the store may inject into an operation, by the run's fault mode.
Injected ==
    CASE storeFaults = "none" -> {}
      [] storeFaults = "conflict" -> {"WriteConflict"}
      [] storeFaults = "any" -> {"WriteConflict", "other"}

\* Keys of "txns" written by transactions other than r's that are still open.
PendingKeys(r) == {TxnOf(q).key : q \in {x \in Reqs \ {r} : ws[x].txn}}
CommittedKeys == {d.key : d \in txns}

\* Outcomes of InsertOne into "users" within r's transaction.  A User
\* document gets a fresh ObjectID as _id.
InsertUserResults(r, sub) ==
    Injected \cup
    (IF UsersUniqueSub /\ users[sub] > 0 THEN {"DuplicateKey"}
     ELSE IF UsersUniqueSub
             /\ \E q \in Reqs \ {r} : ws[q].user /\ payment[q].sub = sub
          THEN {"WriteConflict"}
     ELSE {"ok"})

\* Outcomes of InsertOne into "txns" within r's transaction: the unique _id
\* index rejects a committed key as a duplicate, and a key written by
\* another open transaction as a write conflict.
InsertTxnResults(r, key) ==
    Injected \cup
    (IF key \in CommittedKeys THEN {"DuplicateKey"}
     ELSE IF key \in PendingKeys(r) THEN {"WriteConflict"}
     ELSE {"ok"})

\* The committed collections after r's transaction commits.
CommitUsersNone(r) == users
CommitUsers(r) ==
    IF ws[r].user THEN [users EXCEPT ![payment[r].sub] = @ + 1] ELSE users
CommitTxnsNone(r) == txns
CommitTxns(r) ==
    IF ws[r].txn THEN txns \cup {TxnOf(r)} ELSE txns

\* ------------------------------------------------------- balance (reads)
RECURSIVE SumField(_, _)
\* $group/$sum of a field over a set of documents; a document without the
\* field adds nothing.
SumField(docs, f) ==
    IF docs = {} THEN 0
    ELSE LET d == CHOOSE x \in docs : TRUE
         IN (IF f \in DOMAIN d THEN d[f] ELSE 0) + SumField(docs \ {d}, f)

\* $match {sub: sub} on the committed collection "txns".
MatchSubAll(sub) == txns
MatchSub(sub) == {d \in txns : d.sub = sub}

\* An aggregation yields a row only if some document matched; without a
\* row the zero value of the result struct is returned.
userCreditCount(sub) == Cardinality(MatchSub(sub))
userCredit(sub) ==
    IF MatchSub(sub) = {} THEN 0 ELSE SumField(MatchSub(sub), "amount")

userSpent(sub) ==
    IF MatchSub(sub) = {} THEN 0 ELSE SumField(MatchSub(sub), "price")

UserBalance(sub) == userCredit(sub) - userSpent(sub)


\* ------------------------------------------------------------ responses
Response(status, msg) == [status |-> status, body |-> msg]

\* API.WriteError(w, err, code) on the real writer: one response.
WriteErrorBadRequest(r, msg, code) ==
    Append(sink[r], Response(StatusBadRequest, msg))
WriteError(r, msg, code) == Append(sink[r], Response(code, msg))

\* ------------------------------------------------ MongoWriter (adapter)
\* The MongoWriter handed to the handler.  An error status written to it
\* is recorded together with the body, and the transaction is aborted; a
\* success status commits the transaction and is passed on to the real
\* writer ("both the status and the response content are already written
\* to the response writer", WithDBSession).
Recorded(status, msg) == [status |-> status, buf |-> msg]
PassedOn(w, status, msg) == Append(w, Response(status, msg))
ErrorStatus(m) == m.status
ErrorBuffer(m) == m.buf
\* errors.AddContext(err, ctx): the message of the wrapped error.
AddContext(err, ctx) == ctx \o ": " \o err

\* The contexts that CreditUser adds to the error of a failed insert.
CreateUserFailed == "failed to create user"
RegisterTxnFailed == "failed to register txn"

\* The messages of a store write conflict as CreditUser returns it.
WriteConflictErrors ==
    {AddContext("WriteConflict", c) : c \in {CreateUserFailed, RegisterTxnFailed}}

FailedWithWriteConflict(m) == m.status > 0 /\ m.buf \in WriteConflictErrors

\* ----------------------------------------------------- payment handler
\* json.Decode of the body into PaymentPOST.
DecodeOK(b) == b # Garbage

\* What a decoder is given by a reader: the bytes when the reader is at
\* their start, else a remainder that is no JSON object.
ReadFrom(rd) == IF rd.off = 0 THEN rd.bytes ELSE Garbage

\* The reader after json.Decode has read from it: at the end of a JSON
\* object, partway into bytes that do not parse.
Consumed(rd) == [rd EXCEPT !.off = IF DecodeOK(ReadFrom(rd)) THEN 2 ELSE 1]

\* PaymentPOST.Validate: the error message, or "" for nil.
ValidateNoCredits(p) ==
    IF p.sub = "" THEN "missing or empty sub"
    ELSE IF p.txnID = "" THEN "missing or empty txn ID"
    ELSE ""
Validate(p) ==
    IF p.credits <= 0 THEN "non-positive credits amount"
    ELSE IF p.sub = "" THEN "missing or empty sub"
    ELSE IF p.txnID = "" THEN "missing or empty txn ID"
    ELSE ""

\* CreditUser: the error returned for the outcome of NewUser ("" for nil,
\* in which case CreditUser goes on to NewTxn).
CreditUserIgnoresUserError(res) == ""
CreditUserAfterNewUser(res) ==
    IF res \in {"ok", "DuplicateKey"} THEN "" ELSE AddContext(res, CreateUserFailed)

\* CreditUser: the error returned for the outcome of NewTxn ("" for nil).
CreditUserDupIsError(res) ==
    IF res = "ok" THEN "" ELSE AddContext(res, RegisterTxnFailed)
CreditUserAfterNewTxn(res) ==
    IF res \in {"ok", "DuplicateKey"} THEN "" ELSE AddContext(res, RegisterTxnFailed)

\* ------------------------------------------------- retry orchestrator
\* handleFn, the retry decision: a WriteConflict with retries left is
\* retried unless the request context is done.
ShouldRetryAnyError(m, retriesLeft, expired) ==
    ErrorStatus(m) # 0 /\ retriesLeft > 0 /\ ~expired
ShouldRetryOneLess(m, retriesLeft, expired) ==
    FailedWithWriteConflict(m) /\ retriesLeft > 1 /\ ~expired
ShouldRetryNever(m, retriesLeft, expired) == FALSE
ShouldRetryIgnoresDeadline(m, retriesLeft, expired) ==
    FailedWithWriteConflict(m) /\ retriesLeft > 0
ShouldRetryAlsoSuccess(m, retriesLeft, expired) ==
    /\ ErrorStatus(m) = 0 \/ FailedWithWriteConflict(m)
    /\ retriesLeft > 0 /\ ~expired
ShouldRetry(m, retriesLeft, expired) ==
    FailedWithWriteConflict(m) /\ retriesLeft > 0 /\ ~expired

\* handleFn, numRetriesLeft--: the counter is a local variable of the
\* function that WithDBSession returns, one for each request served.
DecrementShared(cnt, r) == [q \in Reqs |-> cnt[q] - 1]
DecrementNone(cnt, r) == cnt
Decrement(cnt, r) == [cnt EXCEPT ![r] = @ - 1]

\* handleFn, the tail: what the real writer w holds when handleFn returns
\* with the MongoWriter m.  Nothing is added on success (already written)
\* and on a retry; otherwise the recorded error status and buffer are
\* written.
FlushAlways(m, w, retry) ==
    IF retry THEN w ELSE Append(w, Response(ErrorStatus(m), ErrorBuffer(m)))
FlushOnRetryToo(m, w, retry) ==
    IF ErrorStatus(m) = 0 THEN w
    ELSE Append(w, Response(ErrorStatus(m), ErrorBuffer(m)))
FlushStatusOnly(m, w, retry) ==
    IF ErrorStatus(m) = 0 \/ retry THEN w
    ELSE Append(w, Response(ErrorStatus(m), ""))
Flush(m, w, retry) ==
    IF ErrorStatus(m) = 0 \/ retry THEN w
    ELSE Append(w, Response(ErrorStatus(m), ErrorBuffer(m)))

\* handleFn, first line: req.Body is replaced by a new reader over the
\* bytes read before the loop.
FreshBodyKept(r) == reqBody[r]
FreshBody(r) == NewReader(body[r])

\* The sessions of a request after NewSession and after the deferred
\* EndSession.
NewSession(n) == n + 1
EndSessionLeak(n) == n
EndSession(n) == n - 1

\* How the unit of work of an attempt ends for the MongoWriter m: it is
\* committed if no error status was recorded, else aborted (by the
\* MongoWriter, or by EndSession at the latest).
TxnOutcomeCommit(m) == "commit"
TxnOutcome(m) == IF ErrorStatus(m) = 0 THEN "commit" ELSE "abort"

\* handleFn from the return of the handler on, for request r whose
\* MongoWriter is m and whose real writer holds w: done on success, a
\* retry on a WriteConflict with retries left and a live context, else the
\* recorded error is written.  The context is looked at only when a retry
\* is possible.  The deferred EndSession ends the session, which aborts a
\* transaction that is still open.
HandlerReturned(r, m, w) ==
    /\ \E expired \in BOOLEAN :
         LET asked == FailedWithWriteConflict(m) /\ numRetriesLeft[r] > 0
             retry == ShouldRetry(m, numRetriesLeft[r], expired)
         IN /\ asked \/ ~expired
            /\ ctxDone' = [ctxDone EXCEPT ![r] = expired]
            /\ sink' = [sink EXCEPT ![r] = Flush(m, w, retry)]
            /\ numRetriesLeft' =
                 IF retry THEN Decrement(numRetriesLeft, r) ELSE numRetriesLeft
            /\ pc' = [pc EXCEPT ![r] = IF retry THEN "attempt" ELSE "done"]
    /\ mw' = [mw EXCEPT ![r] = m]
    /\ users' = IF TxnOutcome(m) = "commit" THEN CommitUsers(r) ELSE users
    /\ txns' = IF TxnOutcome(m) = "commit" THEN CommitTxns(r) ELSE txns
    /\ sessOpen' = [sessOpen EXCEPT ![r] =
                      EndSession(IF pc[r] = "attempt" THEN NewSession(@) ELSE @)]
    /\ ws' = [ws EXCEPT ![r] = NoWrites]
    /\ UNCHANGED subscriptions

\* ---------------------------------------------------------------- actions
\* WithDBSession, before the loop: the retry counter is set and the body is
\* read once.  Requests are numbered in the order in which they arrive.
ReadBody(r) ==
    /\ pc[r] = "new"
    /\ \A q \in Reqs : q < r => pc[q] # "new"
    /\ serial => \A q \in Reqs : ~InFlight(q)
    /\ numRetriesLeft' = [numRetriesLeft EXCEPT ![r] = DBTxnRetryCount]
    /\ bodyReads' = [bodyReads EXCEPT ![r] = @ + 1]
    /\ \E b \in Bodies, ok \in IF "other" \in Injected THEN BOOLEAN ELSE {TRUE} :
         IF ok
         THEN /\ body' = [body EXCEPT ![r] = b]
              /\ reqBody' = [reqBody EXCEPT ![r] = [bytes |-> b, off |-> 2]]
              /\ pc' = [pc EXCEPT ![r] = "attempt"]
              /\ sink' = sink
         ELSE /\ body' = body
              /\ reqBody' = [reqBody EXCEPT ![r] = [@ EXCEPT !.off = 1]]
              /\ pc' = [pc EXCEPT ![r] = "done"]
              /\ sink' = [sink EXCEPT ![r] =
                            WriteError(r, "failed to read body", StatusBadRequest)]
    /\ UNCHANGED <<envVars, storeVars, sessOpen, ws, mw, ctxDone,
                   handlerCalls, creditCalls, payment>>

\* handleFn up to the handler's call of CreditUser: req.Body is renewed,
\* then NewSession and NewMongoWriter (which starts the transaction), either
\* of which may fail, then paymentPOST decodes and validates the body.  An
\* error response of the handler goes to the MongoWriter, and handleFn
\* decides what follows.
BeginAttempt(r) ==
    /\ pc[r] = "attempt"
    /\ \E res \in {"ok"} \cup
                 (IF "other" \in Injected THEN {"session", "txn"} ELSE {}) :
         IF res # "ok"
         THEN /\ pc' = [pc EXCEPT ![r] = "done"]
              /\ sink' = [sink EXCEPT ![r] =
                   WriteError(r,
                       IF res = "session"
                       THEN "failed to start a new mongo session"
                       ELSE "failed to start a new transaction",
                       StatusInternalServerError)]
              /\ reqBody' = [reqBody EXCEPT ![r] = FreshBody(r)]
              /\ UNCHANGED <<mw, ws, sessOpen, handlerCalls, creditCalls,
                             numRetriesLeft, ctxDone, storeVars, payment>>
         ELSE LET p == ReadFrom(FreshBody(r))
              IN /\ handlerCalls' = [handlerCalls EXCEPT ![r] = @ + 1]
                 /\ reqBody' = [reqBody EXCEPT ![r] = Consumed(FreshBody(r))]
                 /\ payment' = [payment EXCEPT ![r] = p]
                 /\ IF ~DecodeOK(p)
                    THEN /\ HandlerReturned(r,
                              Recorded(StatusBadRequest, "failed to parse body"),
                              sink[r])
                         /\ UNCHANGED creditCalls
                    ELSE IF Validate(p) # ""
                    THEN /\ HandlerReturned(r,
                              Recorded(StatusBadRequest, Validate(p)),
                              sink[r])
                         /\ UNCHANGED creditCalls
                    ELSE /\ creditCalls' = [creditCalls EXCEPT ![r] = @ + 1]
                         /\ sessOpen' = [sessOpen EXCEPT ![r] = NewSession(@)]
                         /\ mw' = [mw EXCEPT ![r] = NoError]
                         /\ ws' = [ws EXCEPT ![r] = NoWrites]
                         /\ pc' = [pc EXCEPT ![r] = "newUser"]
                         /\ UNCHANGED <<sink, numRetriesLeft, ctxDone, storeVars>>
    /\ UNCHANGED <<envVars, body, bodyReads>>

\* CreditUser, first step: NewUser.  A duplicate key is ignored; any other
\* error is returned, paymentPOST writes it as a 500 to the MongoWriter
\* (which aborts the transaction) and returns.
CreditUser_NewUser(r) ==
    /\ pc[r] = "newUser"
    /\ \E res \in InsertUserResults(r, payment[r].sub) :
         IF CreditUserAfterNewUser(res) = ""
         THEN /\ ws' = [ws EXCEPT ![r].user = (res = "ok")]
              /\ pc' = [pc EXCEPT ![r] = "newTxn"]
              /\ UNCHANGED <<mw, sink, numRetriesLeft, ctxDone, sessOpen,
                             storeVars>>
         ELSE HandlerReturned(r,
                  Recorded(StatusInternalServerError,
                           CreditUserAfterNewUser(res)),
                  sink[r])
    /\ UNCHANGED <<envVars, readerVars, body, handlerCalls, creditCalls>>

\* CreditUser, second step: NewTxn.  A duplicate key means the txn was
\* already processed: CreditUser returns nil.
CreditUser_NewTxn(r) ==
    /\ pc[r] = "newTxn"
    /\ \E res \in InsertTxnResults(r, TxnOf(r).key) :
         IF CreditUserAfterNewTxn(res) = ""
         THEN /\ ws' = [ws EXCEPT ![r].txn = (res = "ok")]
              /\ pc' = [pc EXCEPT ![r] = "success"]
              /\ UNCHANGED <<mw, sink, numRetriesLeft, ctxDone, sessOpen,
                             storeVars>>
         ELSE HandlerReturned(r,
                  Recorded(StatusInternalServerError,
                           CreditUserAfterNewTxn(res)),
                  sink[r])
    /\ UNCHANGED <<envVars, readerVars, body, handlerCalls, creditCalls>>

\* paymentPOST, last line: WriteSuccess on the MongoWriter commits the
\* transaction and passes the success status on to the real writer; the
\* handler returns.
WriteSuccess(r) ==
    /\ pc[r] = "success"
    /\ HandlerReturned(r, mw[r], PassedOn(sink[r], StatusOK, ""))
    /\ UNCHANGED <<envVars, readerVars, body, handlerCalls, creditCalls>>

Next ==
    \E r \in Reqs :
        \/ ReadBody(r)
        \/ BeginAttempt(r)
        \/ CreditUser_NewUser(r)
        \/ CreditUser_NewTxn(r)
        \/ WriteSuccess(r)

Spec == Init /\ [][Next]_vars

\* The steps of WithDBSession for a request whose body has been read.  Each
\* request is served by its own goroutine, and every call made in it (the
\* session and transaction start, the handler, the store operations)
\* returns: a step that stays possible is taken.
Serve(r) ==
    \/ BeginAttempt(r)
    \/ CreditUser_NewUser(r)
    \/ CreditUser_NewTxn(r)
    \/ WriteSuccess(r)

\* The store injects every kind of failure at every operation, so the
\* failures that a request meets do not depend on what other requests do:
\* the requests are posted one at a time.
FairInit == Init /\ storeFaults = "any" /\ serial

FairSpec == FairInit /\ [][Next]_vars /\ \A r \in Reqs : WF_vars(Serve(r))

\* ------------------------------------------------------------ GET /health
\* DB.Health: the error returned by the client's Ping ("" for nil).
Ping == IF dbReachable THEN "" ELSE "server selection timeout"

\* healthGET: DBAlive is ph.Database == nil.
DBAliveAlways(ph) == TRUE
DBAlive(ph) == ph = ""

\* API.WriteJSON(w, obj): status 200 and the encoded object.
WriteJSON(w, obj) == Append(w, Response(StatusOK, obj))

\* healthGET, registered on the router without WithDBSession.
healthGET(h) ==
    /\ healthW[h] = <<>>
    /\ \A g \in HealthReqs : g < h => healthW[g] # <<>>
    /\ healthW' = [healthW EXCEPT ![h] =
                      WriteJSON(@, [dbAlive |-> DBAlive(Ping)])]
    /\ UNCHANGED <<paymentVars, storeVars, dbReachable>>

\* The store becomes unreachable, or reachable again.
StoreReachability ==
    /\ dbReachable' = ~dbReachable
    /\ UNCHANGED <<paymentVars, storeVars, healthW>>

\* The service with its two routes: payments are posted one at a time to a
\* store that injects no failure, and make progress while the store is
\* reachable.
HealthInit == Init /\ storeFaults = "none" /\ serial

HealthNext ==
    \/ \E h \in HealthReqs : healthGET(h)
    \/ StoreReachability
    \/ dbReachable /\ Next

HealthSpec == HealthInit /\ [][HealthNext]_vars


\* ================================================================ claims
Done(r) == pc[r] = "done"
Arrived == {r \in Reqs : pc[r] # "new"}

\* The request got the success response.
Succeeded(r) == Done(r) /\ sink[r] = <<Response(StatusOK, "")>>

\* The request's terminal response is the recorded WriteConflict error.
EndedInConflict(r) ==
    /\ Done(r)
    /\ \E e \in WriteConflictErrors :
          sink[r] = <<Response(StatusInternalServerError, e)>>

\* A payment that validation must reject (stated apart from Validate).
InvalidPayment(b) == b.credits <= 0 \/ b.sub = "" \/ b.txnID = ""
ValidPayment(b) == b \in ValidBodies

RECURSIVE Total(_, _)
\* The sum of field f over a set of records.
Total(S, f) ==
    IF S = {} THEN 0
    ELSE LET x == CHOOSE y \in S : TRUE IN x[f] + Total(S \ {x}, f)

AllSubs == Subs \cup {""}

\* ---------------------------------------------------------------- C1
\* C1: CreditUser is idempotent.  Whenever the committed CreditUser calls
\* that share a txnID are calls with identical (sub, amount, txnID), every
\* user's balance is the sum of the amounts of the distinct calls made for
\* that user: k >= 1 identical calls raise the balance by amount once.
C1_Idempotent ==
    LET ok == {r \in Reqs : Succeeded(r)}
    IN (\A r1, r2 \in ok :
            body[r1].txnID = body[r2].txnID => body[r1] = body[r2])
       => \A s \in AllSubs :
            UserBalance(s) = Total({body[r] : r \in {x \in ok : body[x].sub = s}},
                                   "credits")

\* Two committed calls with the same triple; the balance rose once.
C1_Witness ==
    \E r1, r2 \in Reqs :
        /\ r1 # r2 /\ Succeeded(r1) /\ Succeeded(r2)
        /\ body[r1] = body[r2]
        /\ UserBalance(body[r1].sub) = body[r1].credits

\* ---------------------------------------------------------------- C2
\* C2: in every committed store state there is at most one Txn document
\* for any txn ID, whatever the interleaving of the requests.
C2_OneTxnPerID ==
    \A d1, d2 \in txns : d1.id = d2.id => d1 = d2

\* A race with no injected failure: one request holds the uncommitted
\* insert of a txn ID, and another request for the same txn ID has been sent
\* into a retry by the write conflict.
C2_Witness ==
    /\ storeFaults = "none"
    /\ \E r1, r2 \in Reqs :
          /\ r1 # r2 /\ body[r1].txnID = body[r2].txnID
          /\ ws[r1].txn
          /\ handlerCalls[r2] >= 2

\* ---------------------------------------------------------------- C3
\* C3: the real writer receives exactly one response per request: none
\* while the request is being handled, one once it is finished.
C3_ExactlyOneResponse ==
    \A r \in Reqs :
        /\ Done(r) => Len(sink[r]) = 1
        /\ ~Done(r) => Len(sink[r]) = 0

\* A request that was retried and then finished with its one response.
C3_Witness ==
    \E r \in Reqs : Done(r) /\ handlerCalls[r] >= 2 /\ Len(sink[r]) = 1

\* ---------------------------------------------------------------- C4
\* C4 as stated: a request all of whose attempts ended with a WriteConflict,
\* with a context that never expired, invoked the handler exactly
\* DBTxnRetryCount times.
C4_Original ==
    \A r \in Reqs :
        EndedInConflict(r) /\ ~ctxDone[r] => handlerCalls[r] = DBTxnRetryCount

\* C4 amended: such a request invoked the handler exactly DBTxnRetryCount + 1
\* times: the first attempt and DBTxnRetryCount retries.
C4_BoundedRetry ==
    \A r \in Reqs :
        EndedInConflict(r) /\ ~ctxDone[r]
            => handlerCalls[r] = DBTxnRetryCount + 1

\* A request that ended with the conflict error with no expired context.
C4_Witness ==
    \E r \in Reqs :
        /\ EndedInConflict(r) /\ ~ctxDone[r]
        /\ numRetriesLeft[r] = 0
        /\ handlerCalls[r] = DBTxnRetryCount + 1


\* ---------------------------------------------------------------- C5
\* The credits of a set of requests, summed request by request.
CreditsOf(R) == Total({[req |-> r, credits |-> body[r].credits] : r \in R},
                      "credits")

BeginFailures ==
    { Response(StatusInternalServerError, "failed to start a new mongo session"),
      Response(StatusInternalServerError, "failed to start a new transaction") }

\* The request was read and carries a payment that validation must reject.
Rejectable(b) == b \in Bodies \ {Garbage} /\ InvalidPayment(b)

\* C6 as stated: a payment with credits <= 0, empty sub or empty txnID is
\* answered with a 400, and CreditUser is never invoked for it.
C6_Original ==
    \A r \in Reqs :
        Done(r) /\ Rejectable(body[r])
            => /\ Len(sink[r]) = 1
               /\ sink[r][1].status = StatusBadRequest
               /\ creditCalls[r] = 0

\* C6 amended: such a payment is answered with a 400, or with a 500 when the
\* session or the transaction could not be started; CreditUser is never
\* invoked for it, its transaction writes nothing, and no step taken for it
\* changes the committed store or any user's balance.
C6_ValidationFirst ==
    [][\A r \in Reqs :
          Rejectable(body'[r]) /\ pc'[r] # pc[r]
              => /\ creditCalls'[r] = 0
                 /\ ws'[r] = NoWrites
                 /\ storeVars' = storeVars
                 /\ \A s \in AllSubs : UserBalance(s)' = UserBalance(s)
                 /\ Done(r)' =>
                      /\ Len(sink'[r]) = 1
                      /\ \/ sink'[r][1].status = StatusBadRequest
                         \/ sink'[r][1] \in BeginFailures]_vars

\* A rejected payment answered with a 400 while a user has a balance.
C6_Witness ==
    \E r \in Reqs :
        /\ Done(r) /\ Rejectable(body[r])
        /\ sink[r] = <<Response(StatusBadRequest, "non-positive credits amount")>>
        /\ creditCalls[r] = 0
        /\ UserBalance(body[r].sub) > 0

\* ---------------------------------------------------------------- C7
\* C7: repeated delivery.  With requests posted one after the other, no
\* injected failure, and every request carrying the same valid payment,
\* every finished request got the success response and the balance of the
\* sub is the credits of the payment, after the first call and after
\* every later one.
C7_RepeatedDelivery ==
    ( /\ storeFaults = "none" /\ serial
      /\ \A r \in Arrived : ValidPayment(body[r])
      /\ \A r1, r2 \in Arrived : body[r1] = body[r2] )
    => \A r \in Arrived :
          Done(r) => /\ Succeeded(r)
                     /\ UserBalance(body[r].sub) = body[r].credits

\* The same payment posted by every request in turn, all answered.
C7_Witness ==
    /\ storeFaults = "none" /\ serial
    /\ \A r \in Reqs : Succeeded(r) /\ body[r] = body[1]
    /\ UserBalance(body[1].sub) = body[1].credits

\* ---------------------------------------------------------------- C8
\* C8: for every sub, UserBalance is the sum of the amounts of the sub's Txn
\* documents minus the sum of the prices of the sub's spend records (the
\* "subscriptions" collection); it is 0 for a sub without records.
C8_Balance ==
    \A s \in AllSubs :
        UserBalance(s) = Total({d \in txns : d.sub = s}, "amount")
                         - Total({d \in subscriptions : d.sub = s}, "price")

\* One sub with two txns of different amounts, another sub with no record.
C8_Witness ==
    \E s1, s2 \in Subs :
        /\ Cardinality({d \in txns : d.sub = s1}) = 2
        /\ UserBalance(s1) = 3
        /\ {d \in txns : d.sub = s2} = {}
        /\ UserBalance(s2) = 0

\* ---------------------------------------------------------------- C9
\* The step ends an attempt of r in which the handler ran.
AttemptEnded(r) ==
    /\ pc'[r] \in {"attempt", "done"}
    /\ \/ pc[r] \in {"newUser", "newTxn", "success"}
       \/ pc[r] = "attempt" /\ handlerCalls'[r] # handlerCalls[r]

\* C9: when an attempt ends with a WriteConflict while retries are left and
\* the context is not done, nothing is written and another attempt is
\* due; the conflict error is the terminal response only when no retry is
\* left or the context was done at the decision.
C9_ConflictRetried ==
    [][\A r \in Reqs :
          /\ AttemptEnded(r) /\ FailedWithWriteConflict(mw'[r])
                /\ numRetriesLeft[r] > 0 /\ ~ctxDone'[r]
              => /\ pc'[r] = "attempt"
                 /\ sink'[r] = <<>>
                 /\ numRetriesLeft'[r] = numRetriesLeft[r] - 1
          /\ EndedInConflict(r)' /\ ~EndedInConflict(r)
              => numRetriesLeft[r] = 0 \/ ctxDone'[r]]_vars

\* A request about to run a retry after a conflict, nothing written yet.
C9_Witness ==
    \E r \in Reqs :
        /\ pc[r] = "attempt" /\ handlerCalls[r] >= 1
        /\ FailedWithWriteConflict(mw[r])
        /\ numRetriesLeft[r] < DBTxnRetryCount
        /\ sink[r] = <<>>

\* --------------------------------------------------------------- C10
\* C10: once the handler has recorded an error that is no WriteConflict,
\* the request is finished, and the recorded status and body are what the
\* real writer got, however many retries are left.
C10_OtherErrorTerminal ==
    \A r \in Reqs :
        ErrorStatus(mw[r]) # 0 /\ ~FailedWithWriteConflict(mw[r])
            => /\ Done(r)
               /\ sink[r] = <<Response(ErrorStatus(mw[r]), ErrorBuffer(mw[r]))>>

\* A request that was retried, then met another error with retries left.
C10_Witness ==
    \E r \in Reqs :
        /\ Done(r) /\ handlerCalls[r] >= 2 /\ numRetriesLeft[r] > 0
        /\ mw[r] = Recorded(StatusInternalServerError,
                             AddContext("other", RegisterTxnFailed))
        /\ sink[r] = <<Response(StatusInternalServerError,
                                 AddContext("other", RegisterTxnFailed))>>

\* --------------------------------------------------------------- C11
\* C11: an attempt in which an error was recorded commits nothing.  The
\* committed store holds only what the successful attempts committed: a
\* Txn document only of a request that succeeded, one User document for
\* each request that succeeded and none for any other, and the writes of
\* an attempt are gone once the attempt has ended.  A request all of
\* whose attempts failed has left nothing in the store.
C11_FailedAttemptNeverCommits ==
    /\ \A d \in txns : Succeeded(d.by) /\ d.id = body[d.by].txnID
    /\ \A s \in AllSubs :
          users[s] = Cardinality({r \in Reqs : Succeeded(r) /\ body[r].sub = s})
    /\ \A r \in Reqs : pc[r] \in {"attempt", "done"} => ws[r] = NoWrites

\* With no injected failure, a request inserted a User in each of its
\* attempts, lost every attempt to a conflict on its Txn, and the store is
\* as empty as it was before the request.
C11_Witness ==
    /\ storeFaults = "none"
    /\ \E r \in Reqs :
          /\ EndedInConflict(r)
          /\ creditCalls[r] = DBTxnRetryCount + 1
          /\ users[body[r].sub] = 0
          /\ txns = {}

\* --------------------------------------------------------------- C12
\* C12 as stated: the committed store holds at most one User document for
\* any sub.
C12_OneUserPerSub ==
    \A s \in AllSubs : users[s] <= 1

\* --------------------------------------------------------------- C13
\* C13: every committed Txn document's sub has a User document, and a
\* request whose CreditUser call was committed finds a Txn document with
\* its txn ID and a User document for its sub in the store.
C13_TxnHasUser ==
    /\ \A d \in txns : users[d.sub] >= 1
    /\ \A r \in Reqs :
          Succeeded(r) => /\ \E d \in txns : d.id = body[r].txnID
                          /\ users[body[r].sub] >= 1

\* A txn ID replayed for another sub: the one Txn document is the first
\* sub's, and the second sub has its User document.
C13_Witness ==
    \E r1, r2 \in Reqs :
        /\ Succeeded(r1) /\ Succeeded(r2)
        /\ body[r1].txnID = body[r2].txnID /\ body[r1].sub # body[r2].sub
        /\ Cardinality(txns) = 1
        /\ users[body[r1].sub] >= 1 /\ users[body[r2].sub] >= 1

\* --------------------------------------------------------------- C14
\* C14: every step that answers a health request writes one response with
\* status 200 whose dbAlive is true exactly when the ping returns no error,
\* changes nothing in the store, and leaves every payment request, its
\* session, its retry counter and its handler untouched.
C14_Health ==
    [][\A h \in HealthReqs :
          healthW'[h] # healthW[h]
              => /\ healthW'[h] =
                       <<Response(StatusOK, [dbAlive |-> (Ping = "")])>>
                 /\ (Ping = "") = dbReachable
                 /\ storeVars' = storeVars
                 /\ paymentVars' = paymentVars]_vars

\* One health request answered while the store was reachable and one while
\* it was not, next to a committed payment.
C14_Witness ==
    /\ txns # {}
    /\ \E h1, h2 \in HealthReqs :
          /\ healthW[h1] = <<Response(StatusOK, [dbAlive |-> TRUE])>>
          /\ healthW[h2] = <<Response(StatusOK, [dbAlive |-> FALSE])>>

\* --------------------------------------------------------------- C15
\* C15: a request whose context was found done at the retry decision is
\* finished, although retries were left: its last attempt recorded a
\* WriteConflict, that recorded error is its one response, and nothing of
\* the request is in the committed store.
C15_Deadline ==
    \A r \in Reqs :
        ctxDone[r]
            => /\ Done(r)
               /\ numRetriesLeft[r] > 0
               /\ FailedWithWriteConflict(mw[r])
               /\ sink[r] = <<Response(ErrorStatus(mw[r]), ErrorBuffer(mw[r]))>>
               /\ ws[r] = NoWrites
               /\ \A d \in txns : d.by # r

\* After two retries the context is done at the third conflict: finished
\* with the conflict error and three retries unused.
C15_Witness ==
    \E r \in Reqs :
        /\ ctxDone[r] /\ EndedInConflict(r)
        /\ handlerCalls[r] = 3
        /\ numRetriesLeft[r] = DBTxnRetryCount - 2

\* --------------------------------------------------------------- C16
\* The step writes r's real writer as handleFn itself does: the flush of the
\* error recorded by the MongoWriter, or the WriteError of a failure met
\* before the handler is invoked.
OrchestratorWrote(r) ==
    \/ /\ ErrorStatus(mw'[r]) # 0
       /\ sink'[r] = Append(sink[r],
                            Response(ErrorStatus(mw'[r]), ErrorBuffer(mw'[r])))
    \/ /\ pc[r] \in {"new", "attempt"}
       /\ handlerCalls'[r] = handlerCalls[r]

InHandler(r) == pc[r] \in {"newUser", "newTxn", "success"}

\* C17: a request has one open session while its handler runs and none at
\* any other time: none before the first attempt, none between two
\* attempts, none once it is finished, never two; and no uncommitted write
\* outlives the session.
C17_SessionEnded ==
    \A r \in Reqs :
        /\ sessOpen[r] \in {0, 1}
        /\ sessOpen[r] = 1 <=> InHandler(r)
        /\ ~InHandler(r) => ws[r] = NoWrites

\* A retry is running: the session of the failed attempt was ended, and the
\* one open session is the retry's.
C17_Witness ==
    \E r \in Reqs :
        /\ InHandler(r) /\ handlerCalls[r] >= 2
        /\ FailedWithWriteConflict(mw[r]) = FALSE
        /\ sessOpen[r] = 1

\* --------------------------------------------------------------- C18
\* The request was told that its unit of work could not be begun.
BeginFailed(r) ==
    \E i \in DOMAIN sink[r] : sink[r][i].body \in {x.body : x \in BeginFailures}

\* C18: a request whose unit of work could not be begun in some attempt is
\* finished with that one response, a 500, and its handler was invoked in
\* every attempt but that one: as often as retries were made.  A finished
\* request whose last attempt did not invoke the handler is such a request.
C18_BeginFailure ==
    \A r \in Reqs :
        /\ BeginFailed(r)
              => /\ Done(r)
                 /\ Len(sink[r]) = 1
                 /\ sink[r][1].status = StatusInternalServerError
                 /\ handlerCalls[r] = DBTxnRetryCount - numRetriesLeft[r]
        /\ Done(r) /\ bodyReads[r] = 1 /\ body[r] # NoBody
              /\ handlerCalls[r] = DBTxnRetryCount - numRetriesLeft[r]
              => BeginFailed(r)

\* The unit of work could not be begun in a retry after two conflicts.
C18_Witness ==
    \E r \in Reqs :
        /\ Done(r) /\ BeginFailed(r)
        /\ handlerCalls[r] = 2 /\ numRetriesLeft[r] = DBTxnRetryCount - 2
        /\ FailedWithWriteConflict(mw[r])

\* --------------------------------------------------------------- C19
\* C19: the inbound stream of a request is read once, before the first
\* attempt, and the handler decodes in every attempt the bytes that were
\* read then, from a reader over those bytes.
C19_BodyReplayed ==
    \A r \in Reqs :
        /\ bodyReads[r] = (IF pc[r] = "new" THEN 0 ELSE 1)
        /\ handlerCalls[r] >= 1
              => /\ payment[r] = body[r]
                 /\ reqBody[r].bytes = body[r]

\* A retry decoded the payment that the first attempt decoded, whose reader
\* had been read to the end.
C19_Witness ==
    \E r \in Reqs :
        /\ handlerCalls[r] >= 2 /\ InHandler(r)
        /\ ValidPayment(body[r]) /\ payment[r] = body[r]
        /\ reqBody[r] = [bytes |-> body[r], off |-> 2]

\* --------------------------------------------------------------- C20
\* C20: NewTxn is reached only after an insert of the User that succeeded;
\* and a CreditUser call that fails at either insert is answered by the
\* handler with a recorded 500, ends the attempt, and leaves the committed
\* store unchanged and the attempt's writes dropped, the User inserted
\* before a failed Txn insert included.
C20_CreditUserFails ==
    [][\A r \in Reqs :
          /\ pc[r] = "newUser" /\ pc'[r] = "newTxn" => ws'[r].user
          /\ pc[r] \in {"newUser", "newTxn"} /\ pc'[r] \in {"attempt", "done"}
              => /\ ErrorStatus(mw'[r]) = StatusInternalServerError
                 /\ ErrorBuffer(mw'[r]) \in
                       {AddContext(e, IF pc[r] = "newUser" THEN CreateUserFailed
                                      ELSE RegisterTxnFailed) :
                            e \in {"WriteConflict", "other"}}
                 /\ storeVars' = storeVars
                 /\ ws'[r] = NoWrites
                 /\ creditCalls'[r] = creditCalls[r]]_vars

\* With no injected failure the Txn insert met a write conflict after the
\* User insert had succeeded; the attempt is over and no User is committed.
C20_Witness ==
    /\ storeFaults = "none"
    /\ \E r \in Reqs :
          /\ pc[r] = "attempt" /\ creditCalls[r] = 1
          /\ mw[r] = Recorded(StatusInternalServerError,
                               AddContext("WriteConflict", RegisterTxnFailed))
          /\ ws[r] = NoWrites
          /\ users[payment[r].sub] = 0

\* --------------------------------------------------------------- C21
\* The step is the return of r's CreditUser call, and the txn ID of the call
\* was committed before the step.
ReplayReturns(r) ==
    /\ pc[r] = "success" /\ pc'[r] = "done"
    /\ \E d \in txns : d.id = payment[r].txnID

\* C21 as stated: a CreditUser call for a txn ID that is already recorded
\* for the same sub is answered with success, and the committed "users" and
\* "txns" collections are after the call what they were before it.
C21_ReplayNoWrite ==
    [][\A r \in Reqs :
          ReplayReturns(r)
            /\ (\E d \in txns : d.id = payment[r].txnID /\ d.sub = payment[r].sub)
              => /\ Succeeded(r)'
                 /\ users' = users
                 /\ txns' = txns]_vars

\* --------------------------------------------------------------- C22
\* C22: a committed Txn document stays in the store as it is in every later
\* state; a CreditUser call for a txn ID that is already recorded, be it
\* with another sub or another amount, is answered with success and leaves
\* the "txns" collection and every user's balance unchanged.
C22_TxnImmutable ==
    [][/\ txns \subseteq txns'
       /\ \A r \in Reqs :
             ReplayReturns(r)
                 => /\ Succeeded(r)'
                    /\ txns' = txns
                    /\ \A s \in AllSubs : UserBalance(s)' = UserBalance(s)]_vars

\* A txn ID credited to one sub and then posted for the other sub with
\* another amount: both answered with success, one document, the first.
C22_Witness ==
    \E r1, r2 \in Reqs :
        /\ Succeeded(r1) /\ Succeeded(r2)
        /\ body[r1].txnID = body[r2].txnID
        /\ body[r1].sub # body[r2].sub /\ body[r1].credits # body[r2].credits
        /\ txns = {NewTxn(r1, body[r1].txnID, body[r1].sub, body[r1].credits)}
        /\ UserBalance(body[r2].sub) = 0

\* --------------------------------------------------------------- C23
\* The error that CreditUser returns when the insert made in the step of r
\* meets a write conflict: its context names the insert that failed.
ConflictOfStep(r) ==
    AddContext("WriteConflict",
               IF pc[r] = "newUser" THEN CreateUserFailed ELSE RegisterTxnFailed)

\* C23: when a request is finished by a conflict error, the one response
\* written to the real writer carries the status and the message of the
\* attempt that ends in that step: a 500 with the conflict of the insert
\* just made, whatever earlier attempts recorded.
C23_LastError ==
    [][\A r \in Reqs :
          AttemptEnded(r) /\ Done(r)' /\ FailedWithWriteConflict(mw'[r])
              => /\ sink'[r] = <<Response(StatusInternalServerError,
                                           ConflictOfStep(r))>>
                 /\ mw'[r] = Recorded(StatusInternalServerError,
                                      ConflictOfStep(r))]_vars

\* With conflicts injected, a request that used up its retries and whose
\* last attempt met the conflict at the insert of the User.
C23_Witness ==
    /\ storeFaults = "conflict"
    /\ \E r \in Reqs :
          /\ Done(r) /\ numRetriesLeft[r] = 0 /\ ~ctxDone[r]
          /\ handlerCalls[r] = DBTxnRetryCount + 1
          /\ sink[r] = <<Response(StatusInternalServerError,
                                  AddContext("WriteConflict", CreateUserFailed))>>

\* --------------------------------------------------------------- C24
\* C24: numRetriesLeft of a request is set to DBTxnRetryCount when the
\* request arrives and changes only in steps of that request; between two
\* attempts it is DBTxnRetryCount less the attempts the request itself has
\* made, whatever the other requests do.
C24_BudgetPerRequest ==
    [][\A r \in Reqs :
          /\ pc'[r] = pc[r] => numRetriesLeft'[r] = numRetriesLeft[r]
          /\ pc[r] = "new" /\ pc'[r] # "new"
                => numRetriesLeft'[r] = DBTxnRetryCount
          /\ pc'[r] = "attempt"
                => numRetriesLeft'[r] = DBTxnRetryCount - handlerCalls'[r]]_vars

\* Two requests handled at once: one has used up its retries, the other
\* has made two attempts and has the rest of its own retries.
C24_Witness ==
    /\ ~serial
    /\ \E r1, r2 \in Reqs :
          /\ EndedInConflict(r1) /\ numRetriesLeft[r1] = 0
          /\ pc[r2] = "attempt" /\ handlerCalls[r2] = 2
          /\ numRetriesLeft[r2] = DBTxnRetryCount - 2

\* --------------------------------------------------------------- C25
\* C25: every request whose body was read gets to its terminal response,
\* whatever conflicts, other errors and expired contexts it meets; its
\* retry counter is never negative, and its handler is never invoked more
\* than DBTxnRetryCount + 1 times.
C25_Terminates ==
    /\ \A r \in Reqs :
          [](numRetriesLeft[r] >= 0 /\ handlerCalls[r] <= DBTxnRetryCount + 1)
    /\ \A r \in Reqs : (pc[r] # "new") ~> Done(r)

\* A request that got its terminal response after it had used every retry.
C25_Witness ==
    \E r \in Reqs :
        /\ Done(r) /\ Len(sink[r]) = 1
        /\ numRetriesLeft[r] = 0
        /\ handlerCalls[r] = DBTxnRetryCount + 1
        /\ storeFaults = "any"

\* --------------------------------------------------------------- C26
\* The number of User documents in the committed store.
UserDocs == Total({[sub |-> s, n |-> users[s]] : s \in AllSubs}, "n")

\* C26: a request is given another attempt only after an attempt that
\* recorded an error; the attempt that succeeded was its last one; and the
\* store holds what one commit for each request that succeeded wrote: at
\* most one Txn document of the request, and one User document for each
\* such request.
C26_OneCommit ==
    /\ \A r \in Reqs :
          /\ pc[r] = "attempt" /\ handlerCalls[r] >= 1 => ErrorStatus(mw[r]) # 0
          /\ Succeeded(r)
                => /\ ErrorStatus(mw[r]) = 0
                   /\ handlerCalls[r] = DBTxnRetryCount - numRetriesLeft[r] + 1
          /\ Cardinality({d \in txns : d.by = r}) <= 1
    /\ UserDocs = Cardinality({r \in Reqs : Succeeded(r)})

\* A request that succeeded in its third attempt, with retries left, and
\* whose writes are in the store once.
C26_Witness ==
    \E r \in Reqs :
        /\ Succeeded(r) /\ handlerCalls[r] = 3 /\ numRetriesLeft[r] = 3
        /\ Cardinality({d \in txns : d.by = r}) = 1
        /\ UserDocs = 1

\* --------------------------------------------------------------- C27
\* C27: in every state in which a request has its success response, the
\* committed store holds a Txn document with the request's txn ID, and the
\* attempt that was answered recorded no error (its unit of work was
\* committed, not aborted).
C27_AckDurable ==
    \A r \in Reqs :
        Succeeded(r)
            => /\ ErrorStatus(mw[r]) = 0
               /\ \E d \in txns : d.key = body[r].txnID /\ d.id = body[r].txnID

\* One request was answered with success and its Txn document is in the
\* store; another request for the same txn ID failed and left none.
C27_Witness ==
    \E r, q \in Reqs :
        /\ Succeeded(r) /\ \E d \in txns : d.by = r /\ d.id = body[r].txnID
        /\ Done(q) /\ ~Succeeded(q) /\ creditCalls[q] >= 1
        /\ body[q].txnID = body[r].txnID
        /\ \A d \in txns : d.by # q

\* --------------------------------------------------------------- C28
\* C28: no step taken for a request changes the balance of a sub other than
\* the sub of the payment the request carries, whether the step credits,
\* finds the txn ID already recorded, or fails.
C28_OtherBalances ==
    [][\A r \in Reqs :
          pc'[r] # pc[r]
              => \A s \in AllSubs \ {payment'[r].sub} :
                    UserBalance(s)' = UserBalance(s)]_vars

\* Both subs were credited, each by its own payment with its own amount.
C28_Witness ==
    \E r1, r2 \in Reqs :
        /\ Succeeded(r1) /\ Succeeded(r2)
        /\ body[r1].sub # body[r2].sub /\ body[r1].txnID # body[r2].txnID
        /\ body[r1].credits # body[r2].credits
        /\ UserBalance(body[r1].sub) = body[r1].credits
        /\ UserBalance(body[r2].sub) = body[r2].credits

====
